---- MODULE Spec2Model ----
(***************************************************************************)
(* The init supervisor of ginit (PID 1): boot, the event loop that         *)
(* multiplexes SIGCHLD with the seat server socket, the seat server, and   *)
(* the shutdown sequence, together with the kernel objects they act on     *)
(* (children, the SIGCHLD signalfd, the socket pair, the mount table) and   *)
(* the vfork-style child of the spawn of the UI process.                   *)
(***************************************************************************)
EXTENDS Integers, Sequences, FiniteSets, TLC

\* ------------------------------------------------------------------ bounds
\* Datagrams the compositor sends over the whole run.
MaxRequests == 2
\* Capacity of the compositor's receive queue (the kernel's max_dgram_qlen).
QCap == 1
\* Lines of the mount tables read_mounts_from_fd is run on.
MaxLines == 2
\* N, the length of the out buffer of read_mounts_from_fd: tables of MaxLines
\* lines both fit and do not fit.
OutLen == 6
\* Length of the strings unquote is run on, the documented one apart.
MaxStr == 3

\* ------------------------------------------------------- program constants
\* seat.rs: let mut buf = [0u8; 48]
BufLen == 48
\* seat.rs: let byte = 0u8; iov_len: mem::size_of_val(&byte)
IovLen == 1
NUL == 0
\* linux.rs: pub const ESRCH / EINTR / ECHILD / EINVAL
ESRCH == 3
EINTR == 4
ECHILD == 10
ENOMEM == 12
EINVAL == 22

\* Children of PID 1: the udev daemon and the UI process (sway).
UdevdPid == 2
SwayPid == 3
DmesgPid == 4

\* The compiled-in mount table, split by build.rs into the early and the
\* late phase (the list of init/src/main.rs, shortened).
Mount(device, dir, fs_type) == [device |-> device, dir |-> dir, fs_type |-> fs_type]
RootMount == Mount("rootfs", "/", "rootfs")
mounts_early ==
    << Mount("none", "/dev", "devtmpfs"),
       Mount("none", "/dev/pts", "devpts"),
       Mount("none", "/run", "tmpfs"),
       Mount("none", "/proc", "proc") >>
mounts_late == << Mount("/dev/nvme0n1p1", "/boot", "vfat") >>

\* A NUL-terminated path one byte longer than the buffer of the seat server:
\* BufLen bytes of '/' and the NUL.
LongPath == [i \in 1..(BufLen + 1) |-> IF i = BufLen + 1 THEN NUL ELSE 47]

\* Datagrams the compositor may send: empty, a path without its NUL, a
\* NUL-terminated path, and a NUL-terminated path that does not fit the buffer.
Datagrams == { <<>>, <<47>>, <<47, NUL>>, LongPath }

VARIABLES
    pc,          \* where PID 1 is
    panicFrom,   \* the pc at which a panic was raised ("none" if none)
    mounts,      \* the kernel's active mount list, in mount order
    children,    \* running children of PID 1
    zombies,     \* exited children not yet reaped
    sigBlocked,  \* SIGCHLD is blocked in PID 1's signal mask
    sigPending,  \* a SIGCHLD is pending (the signalfd is readable)
    uiPid,       \* ui_child_pid (0 before the spawn)
    childPc,     \* where the cloned child of the sway spawn is in spawn_helper
    childTrace,  \* the system calls that child has made, with what they returned
    revents,     \* <<fds[0] readable, fds[1] readable>> of the last poll
    loopExit,    \* why the event loop was left ("none" while it has not been)
    clientSent,  \* datagrams the compositor has sent so far
    inQ,         \* datagrams queued on the server's end of the socket pair
    outQ,        \* responses queued on the compositor's end
    devFd,       \* dev_fd of the request being served (-1: open failed)
    recvd,       \* well-formed requests received
    sendCalls,   \* sendmsg calls that returned
    sentOk,      \* sendmsg calls that queued their message
    resp,        \* the message of the last sendmsg call
    logged,      \* the broker wrote a log line while serving the last request
    shutdownRuns,\* entries into graceful_shutdown
    broadcast,   \* kill(-1, SIGTERM) calls issued
    reapState,   \* the reap loop of end_all_processes
    lines,       \* the lines of /proc/self/mounts as unmount_all read them
    cursor,      \* lines the reverse iterator of unmount_all has yet to yield
    umountCalls, \* targets of the umount calls issued, in order
    umountPass,  \* the pass of unmount_all
    syncs,       \* sync calls issued by graceful_shutdown
    powerOffs,   \* reboot(RB_POWER_OFF) calls issued
    waitRet,     \* what the last libc::wait of the reap loop returned (0: none yet)
    mountTried,  \* the mount points mount has been called for, in order
    handles,     \* the descriptors owned by an Fd value: state and flags
    inherited,   \* the descriptors the executed UI image has inherited
    dmesgPc,     \* where the child spawned by write_kernel_log is
    spawnRet,    \* what spawn_and_wait_with_pre_exec returned to write_kernel_log
    waitCalls,   \* the pid arguments of the wait4 calls it made
    mdirs,       \* read_mounts_from_fd: the mount points of the table behind fd
    mfile,       \* the bytes of that table
    mpos,        \* the file position of fd
    mstate,      \* state (MountParserState)
    out,         \* out[..cursor]
    reads,       \* reads that returned data
    returned,    \* read_mounts_from_fd has returned
    parseRet,    \* the value it returned
    killRet,     \* what the kill(-1, SIGTERM) of end_all_processes returned (1: not called)
    ustr,        \* unquote: s
    upos,        \* the characters of s the for loop has gone through
    res,         \* res
    quote,       \* quote
    escaping,    \* escaping
    ustate,      \* "none", "loop", "returned", or the assertion that failed
    bgPc         \* src/init: where the thread of background_init is ("none": not spawned)

kvars == <<mounts, children, zombies, sigBlocked, sigPending>>
lvars == <<uiPid, childPc, childTrace, revents, loopExit>>
bvars == <<clientSent, inQ, outQ, devFd, recvd, sendCalls, sentOk, resp, logged>>
svars == <<shutdownRuns, broadcast, reapState, lines, cursor, umountCalls, umountPass,
           syncs, powerOffs, waitRet>>
dvars == <<dmesgPc, spawnRet, waitCalls>>
mvars == <<mdirs, mfile, mpos, mstate, out, reads, returned, parseRet>>
uvars == <<ustr, upos, res, quote, escaping, ustate>>
xvars == <<killRet, uvars, bgPc>>
hvars == <<mountTried, handles, inherited, dvars, mvars, xvars>>
vars == <<pc, panicFrom, kvars, lvars, bvars, svars, hvars>>

\* ----------------------------------------------------------------- helpers
Min(a, b) == IF a < b THEN a ELSE b

RECURSIVE Reverse(_)
Reverse(s) == IF s = <<>> THEN <<>> ELSE Append(Reverse(Tail(s)), Head(s))

Dirs(ms) == { ms[i].dir : i \in 1..Len(ms) }

\* writeln!(..).unwrap() and eprintln!: the write succeeds and control goes
\* on to `next`, or it fails and the unwrap panics.
Goto(next) == pc' = next /\ UNCHANGED panicFrom
Panic == pc' = "panic" /\ panicFrom' = pc
LogGoto(next) == Goto(next) \/ Panic

\* ------------------------------------------------------------- linux::Fd
\* The descriptors the supervisor wraps in an Fd value.
HandleNames == {"signalfd", "seat_server", "seat_compositor", "dev_fd", "dmesg_fd"}

\* No Fd value exists; an Fd value that owns a descriptor just obtained
\* with the given descriptor flags.
NoHandle == [state |-> "none", flags |-> {}, closes |-> 0]
Opened(flags) == [state |-> "open", flags |-> flags, closes |-> 0]

\* close(self.0) in Drop: the kernel releases the descriptor whatever the
\* call returns.
Closed(h) == [h EXCEPT !.state = "closed", !.closes = h.closes + 1]

\* The Fd values among `order` that exist, in the order they are dropped.
Live(hs, order) == SelectSeq(order, LAMBDA n : hs[n].state = "open")

\* The first j Fd values of `order` have been dropped.
DropFirst(hs, order, j) ==
    [n \in DOMAIN hs |->
        IF \E i \in 1..j : order[i] = n THEN Closed(hs[n]) ELSE hs[n]]

\* impl Drop for Fd, when close fails and the write of "failed to close FD"
\* fails too: the unwrap panics.
DropPanic == pc' = "panic" /\ panicFrom' = "Fd_drop"

\* The Fd values of `order` go out of scope: each is closed, a failed close
\* is logged, and control goes on to `next`; or the close of the j-th fails
\* and its log line panics, the later ones staying open.
DropAll(order, next) ==
    LET live == Live(handles, order) IN
    \/ handles' = DropFirst(handles, live, Len(live)) /\ Goto(next)
    \/ \E j \in 1..Len(live) : handles' = DropFirst(handles, live, j) /\ DropPanic

\* #[panic_handler]: print (result ignored), sync, loop {}.
panic ==
    /\ pc = "panic"
    /\ pc' = "halted"
    /\ UNCHANGED <<panicFrom, kvars, lvars, bvars, svars>>
    /\ UNCHANGED hvars

\* ----------------------------------------------------------- the kernel
\* A child of PID 1 exits; SIGCHLD becomes pending if it is blocked, and is
\* discarded (default disposition) otherwise.
Running == pc \notin {"halted", "off", "exited"}

ChildExit ==
    /\ Running
    /\ \E p \in children :
        /\ p = SwayPid => childPc = "done"
        /\ p = DmesgPid => dmesgPc \notin {"pre_exec", "halted"}
        /\ children' = children \ {p}
        /\ zombies' = zombies \cup {p}
    /\ sigPending' = (sigPending \/ sigBlocked)
    /\ UNCHANGED <<pc, panicFrom, mounts, sigBlocked, lvars, bvars, svars>>
    /\ UNCHANGED hvars

\* ---------------------------------------------------------------- _start
\* redirect_stdout(); writeln!(Stdout, "booting...").unwrap();
Start ==
    /\ pc = "_start"
    /\ LogGoto("mount_early")
    /\ UNCHANGED <<kvars, lvars, bvars, svars>>
    /\ UNCHANGED hvars

\* The generated mount function: the mounts in order, returning at the
\* first one that fails. k mounts succeed.
Attempted(table, k) == [i \in 1..Min(k + 1, Len(table)) |-> table[i].dir]

MountInOrder(table, next) ==
    \E k \in 0..Len(table) :
        /\ mounts' = mounts \o SubSeq(table, 1, k)
        /\ mountTried' = mountTried \o Attempted(table, k)
        /\ IF k < Len(table) THEN LogGoto(next) ELSE Goto(next)

mount_early ==
    /\ pc = "mount_early"
    /\ MountInOrder(mounts_early, "create_dev_symlinks")
    /\ UNCHANGED <<children, zombies, sigBlocked, sigPending, lvars, bvars, svars>>
    /\ UNCHANGED <<handles, inherited, dvars, mvars, xvars>>

\* create_dev_symlinks(); add_dri_render_permissions(): every failure is
\* logged with an unwrapped writeln.
create_dev_symlinks ==
    /\ pc = "create_dev_symlinks"
    /\ LogGoto("run_event_loop")
    /\ UNCHANGED <<kvars, lvars, bvars, svars>>
    /\ UNCHANGED hvars

\* -------------------------------------------------------- run_event_loop
\* A return from run_event_loop before the loop is entered.
AbortBoot == LogGoto("run_event_loop_return")

\* rt_sigprocmask(SIG_BLOCK, SIGCHLD): a failure is logged and ignored.
block_sigchld ==
    /\ pc = "run_event_loop"
    /\ \/ sigBlocked' = TRUE /\ Goto("signalfd4")
       \/ sigBlocked' = FALSE /\ LogGoto("signalfd4")
    /\ UNCHANGED <<mounts, children, zombies, sigPending, lvars, bvars, svars>>
    /\ UNCHANGED hvars

\* signalfd4(-1, mask, SFD_CLOEXEC | SFD_NONBLOCK): a failure returns.
signalfd4 ==
    /\ pc = "signalfd4"
    /\ \/ /\ Goto("SeatServer_new")
          /\ handles' = [handles EXCEPT !["signalfd"] = Opened({"FD_CLOEXEC"})]
       \/ AbortBoot /\ UNCHANGED handles
    /\ UNCHANGED <<kvars, lvars, bvars, svars>>
    /\ UNCHANGED <<mountTried, inherited, dvars, mvars, xvars>>

\* let new_flags = ret | linux::FD_CLOEXEC; with ret what F_GETFD returned.
NewFlags(ret) == ret \cup {"FD_CLOEXEC"}

\* The socket pair of SeatServer::new: create_socket_pair(AF_UNIX,
\* SOCK_DGRAM | SOCK_CLOEXEC, 0), pair.0 for the server, pair.1 for the
\* compositor.
SocketPair ==
    [handles EXCEPT !["seat_server"] = Opened({"FD_CLOEXEC"}),
                    !["seat_compositor"] = Opened({"FD_CLOEXEC"})]

\* SeatServer::new(): the socket pair and the two fcntl calls on pair.1.
\* A failure returns Err, which run_event_loop logs before it returns; an
\* Err after the pair was made drops both of its Fd values.
SeatServer_new ==
    /\ pc = "SeatServer_new"
    /\ \/ \* create_socket_pair fails
          AbortBoot /\ UNCHANGED handles
       \/ \* F_GETFD or F_SETFD fails: pair.0 and pair.1 are dropped
          LET pair == <<"seat_server", "seat_compositor">> IN
          \/ handles' = DropFirst(SocketPair, pair, Len(pair)) /\ AbortBoot
          \/ \E j \in 1..Len(pair) :
                handles' = DropFirst(SocketPair, pair, j) /\ DropPanic
       \/ \* Ok((Self { fd: pair.0 }, pair.1))
          /\ handles' = [SocketPair EXCEPT
                 !["seat_compositor"].flags = NewFlags(SocketPair["seat_compositor"].flags)]
          /\ Goto("start_ui_process")
    /\ UNCHANGED <<kvars, lvars, bvars, svars>>
    /\ UNCHANGED <<mountTried, inherited, dvars, mvars, xvars>>

\* ui::start_ui_process(): start_udev (udevd is spawned, the two udevadm
\* triggers are spawned and waited for by pid), create_xdg_runtime_dir, then
\* the spawn of sway: clone(CLONE_VM | CLONE_VFORK) starts the child in
\* spawn_helper and suspends the caller. A negative result is logged and
\* run_event_loop returns.
start_ui_process ==
    /\ pc = "start_ui_process"
    /\ \/ \* the spawn of udevd fails: start_udev logs and returns false,
          \* start_ui_process returns -EINVAL
          /\ AbortBoot
          /\ uiPid' = -EINVAL
          /\ UNCHANGED <<children, sigPending, childPc>>
       \/ \* udevd runs; a log of start_udev panics
          /\ Panic
          /\ children' = children \cup {UdevdPid}
          /\ sigPending' \in {sigPending, sigPending \/ sigBlocked}
          /\ UNCHANGED <<uiPid, childPc>>
       \/ \* udevd runs; the mkdir/chown of XDG_RUNTIME_DIR or the clone of
          \* sway fails (ENOMEM stands for any errno)
          /\ AbortBoot
          /\ uiPid' = -ENOMEM
          /\ children' = children \cup {UdevdPid}
          /\ sigPending' \in {sigPending, sigPending \/ sigBlocked}
          /\ UNCHANGED childPc
       \/ \* sway is cloned
          /\ Goto("spawn_with_pre_exec")
          /\ children' = children \cup {UdevdPid, SwayPid}
          /\ sigPending' \in {sigPending, sigPending \/ sigBlocked}
          /\ childPc' = "pre_exec"
          /\ UNCHANGED uiPid
    /\ UNCHANGED <<mounts, zombies, sigBlocked, childTrace, revents, loopExit,
                   bvars, svars>>
    /\ UNCHANGED hvars

\* The calls of ui_process_pre_exec, in order.
pre_exec_calls_setuid_first == <<"setuid", "setgid", "setgroups", "chdir">>

pre_exec_calls == <<"setgid", "setgroups", "setuid", "chdir">>

\* A system call of the child and what it returned (0, or minus the errno;
\* EINVAL stands for any errno).
Call(name, ret) == [call |-> name, ret |-> ret]

\* The calls the hook makes when its first k calls succeed: it stops at the
\* first one that fails.
HookCalls(k) ==
    [i \in 1..Min(k + 1, Len(pre_exec_calls)) |->
        Call(pre_exec_calls[i], IF i <= k THEN 0 ELSE -EINVAL)]

\* Where the child goes when a call of the hook fails:
\* writeln!(linux::Stderr, ..).unwrap(); return false; the hook returns
\* false, or the write fails and the unwrap panics.
PreExecFailure == {"false", "panic"}

\* spawn_helper: if (arg.pre_exec)(arg.pre_exec_data) { execve(..) } exit(1);
AfterPreExec_always_exec(ok) == "execve"

AfterPreExec(ok) == IF ok THEN "execve" ELSE "exit"

\* The child, in spawn_helper: (arg.pre_exec)(arg.pre_exec_data). The first
\* k calls of the hook succeed.
ui_process_pre_exec ==
    /\ childPc = "pre_exec"
    /\ \E k \in 0..Len(pre_exec_calls) :
        /\ childTrace' = childTrace \o HookCalls(k)
        /\ IF k = Len(pre_exec_calls)
           THEN childPc' = AfterPreExec(TRUE)
           ELSE \E r \in PreExecFailure :
                    childPc' = IF r = "panic" THEN "panic" ELSE AfterPreExec(FALSE)
    /\ UNCHANGED <<pc, panicFrom, kvars, uiPid, revents, loopExit, bvars, svars>>
    /\ UNCHANGED hvars

\* The descriptors of the child (a copy of the caller's table, made by
\* clone without CLONE_FILES) that survive execve: the open ones without
\* FD_CLOEXEC.
KeptAcrossExec(hs) ==
    { n \in DOMAIN hs : hs[n].state = "open" /\ "FD_CLOEXEC" \notin hs[n].flags }

\* The child: execve(filename, argv, envp) replaces the image (the child
\* leaves spawn_helper, and the kernel resumes the parent), or fails:
\* let _ = writeln!(Stderr, "failed to execve: {ret}"), result ignored.
execve ==
    /\ childPc = "execve"
    /\ \E ret \in {0, -EINVAL} :
        /\ childTrace' = Append(childTrace, Call("execve", ret))
        /\ childPc' = IF ret < 0 THEN "exit" ELSE "done"
        /\ inherited' = IF ret < 0 THEN inherited ELSE KeptAcrossExec(handles)
    /\ UNCHANGED <<pc, panicFrom, kvars, uiPid, revents, loopExit, bvars, svars>>
    /\ UNCHANGED <<mountTried, handles, dvars, mvars, xvars>>

\* The status spawn_helper exits with.
ExitCode == 1

\* The child: exit(1) at the end of spawn_helper.
spawn_helper_exit ==
    /\ childPc = "exit"
    /\ childPc' = "done"
    /\ childTrace' = Append(childTrace, Call("exit", ExitCode))
    /\ children' = children \ {SwayPid}
    /\ zombies' = zombies \cup {SwayPid}
    /\ sigPending' = (sigPending \/ sigBlocked)
    /\ UNCHANGED <<pc, panicFrom, mounts, sigBlocked, uiPid, revents, loopExit, bvars,
                   svars>>
    /\ UNCHANGED hvars

\* The child in the #[panic_handler]: print, sync, loop {}.
panic_in_child ==
    /\ childPc = "panic"
    /\ childPc' = "halted"
    /\ UNCHANGED <<pc, panicFrom, kvars, uiPid, childTrace, revents, loopExit, bvars, svars>>
    /\ UNCHANGED hvars

\* The parent, suspended in clone until the child has exec'd or exited;
\* spawn_with_pre_exec then returns the pid, which becomes ui_child_pid.
spawn_with_pre_exec ==
    /\ pc = "spawn_with_pre_exec"
    /\ childPc = "done"
    /\ uiPid' = SwayPid
    /\ Goto("late_init")
    /\ UNCHANGED <<kvars, childPc, childTrace, revents, loopExit, bvars, svars>>
    /\ UNCHANGED hvars

\* late_init(), called by run_event_loop before its loop: apply_sysctl
\* (errors go to perror), mount_late and setup_networking, whose failures
\* are logged. setup_networking returns at once (no socket, no interface
\* with an address, a failed send), or it has sent a request and waits for
\* its acknowledgement in ack_error.
late_init ==
    /\ pc = "late_init"
    /\ \E k \in 0..Len(mounts_late) :
        /\ mounts' = mounts \o SubSeq(mounts_late, 1, k)
        /\ mountTried' = mountTried \o Attempted(mounts_late, k)
    /\ LogGoto("poll") \/ Goto("ack_error")
    /\ UNCHANGED <<children, zombies, sigBlocked, sigPending, lvars, bvars, svars>>
    /\ UNCHANGED <<handles, inherited, dvars, mvars, xvars>>

\* NetlinkSocket::ack_error: the blocking read of the netlink socket has
\* returned, with an error or with the NLMSG_ERROR message; the requests
\* that are left go the same way, then late_init returns to run_event_loop.
\* Until the read returns the supervisor does nothing else.
ack_error ==
    /\ pc = "ack_error"
    /\ LogGoto("poll")
    /\ UNCHANGED <<kvars, lvars, bvars, svars>>
    /\ UNCHANGED hvars

\* The ways out of the loop: `break` and `return` both end run_event_loop.
LeaveLoop(why) ==
    \/ Goto("run_event_loop_return") /\ loopExit' = why
    \/ Panic /\ UNCHANGED loopExit

\* revents: 0 of both pollfd at the top of an iteration.
NoEvents == <<FALSE, FALSE>>

\* Where the iteration goes once fds[0] has been dealt with.
SeatCheck == IF revents[2] THEN "recvfrom" ELSE "poll"

\* linux::poll(&mut fds, 500) and the three error checks after it. The
\* signalfd is readable while a SIGCHLD is pending, the socket while a
\* datagram is queued; with neither the call times out.
poll ==
    /\ pc = "poll"
    /\ \/ /\ \E why \in {"poll_failed", "signalfd_error", "socket_error"} :
                LeaveLoop(why)
          /\ UNCHANGED revents
       \/ /\ revents' = <<sigPending, inQ # <<>>>>
          /\ Goto(IF revents'[1] THEN "read_signalfd"
                  ELSE IF revents'[2] THEN "recvfrom" ELSE "poll")
          /\ UNCHANGED loopExit
    /\ UNCHANGED <<kvars, uiPid, childPc, childTrace, bvars, svars>>
    /\ UNCHANGED hvars

\* The drain loop: read until EAGAIN, or until a read error, which is logged.
read_signalfd ==
    /\ pc = "read_signalfd"
    /\ \/ sigPending' = FALSE /\ Goto("wait4")
       \/ UNCHANGED sigPending /\ LogGoto("wait4")
    /\ UNCHANGED <<mounts, children, zombies, sigBlocked, lvars, bvars, svars>>
    /\ UNCHANGED hvars

\* What wait4(-1, &status, WNOHANG, null) can return.
Wait4NoHang ==
    IF zombies # {} THEN zombies
    ELSE IF children # {} THEN {0}
    ELSE {-ECHILD}

\* The if/else chain on the pid returned by wait4.
ReapDecision_anychild(pid, ui) ==
    IF pid < 0 THEN "log_break"
    ELSE IF pid = 0 THEN "break"
    ELSE "return"

ReapDecision_reapone(pid, ui) ==
    IF pid < 0 THEN "log_break"
    ELSE IF pid = 0 THEN "break"
    ELSE IF pid = ui THEN "return"
    ELSE "break"

ReapDecision(pid, ui) ==
    IF pid < 0 THEN "log_break"
    ELSE IF pid = 0 THEN "break"
    ELSE IF pid = ui THEN "return"
    ELSE "continue"

wait4 ==
    /\ pc = "wait4"
    /\ \E pid \in Wait4NoHang :
        /\ zombies' = zombies \ {pid}
        /\ LET d == ReapDecision(pid, uiPid) IN
            \/ d = "log_break" /\ LogGoto(SeatCheck) /\ UNCHANGED loopExit
            \/ d = "break" /\ Goto(SeatCheck) /\ UNCHANGED loopExit
            \/ d = "return" /\ LeaveLoop("ui_died")
            \/ d = "continue" /\ Goto("wait4") /\ UNCHANGED loopExit
    /\ revents' = IF pc' = "poll" THEN NoEvents ELSE revents
    /\ UNCHANGED <<mounts, children, sigBlocked, sigPending, uiPid, childPc, childTrace,
                   bvars, svars>>
    /\ UNCHANGED hvars

\* ------------------------------------------------------------ seat server
\* The first n bytes of a datagram are copied into buf (n <= 48).
Received(d) == SubSeq(d, 1, Min(Len(d), BufLen))

\* if n == 0 || buf[n - 1] != b'\0' { return Ok(true); }
WellFormed_nonempty(buf) == Len(buf) # 0

WellFormed(buf) == ~(Len(buf) = 0 \/ buf[Len(buf)] # NUL)

\* What linux::open of the requested path can return.
OpenResults == {-2, 7}

\* The message handed to sendmsg: the one-byte iov in both branches, and the
\* SCM_RIGHTS control message only when the open succeeded.
Response_nofd(dev_fd) == [len |-> IovLen, fds |-> <<>>]

Response(dev_fd) ==
    [len |-> IovLen, fds |-> IF dev_fd < 0 THEN <<>> ELSE <<dev_fd>>]

\* Where process_incoming_one goes after linux::open: to one of its two
\* sendmsg calls.
AfterOpen_nosend(dev_fd) == IF dev_fd < 0 THEN "recvfrom" ELSE "sendmsg"

AfterOpen(dev_fd) == "sendmsg"

\* A receive that reports -EAGAIN whatever is queued.
NoDatagramPending_always(q) == TRUE

\* recvfrom with MSG_DONTWAIT returns -EAGAIN: nothing is queued on the
\* socket.
NoDatagramPending(q) == q = <<>>

\* recvfrom(fd, buf, MSG_DONTWAIT) at the top of process_incoming_one, with
\* the loop of process_incoming and its caller in run_event_loop.
recvfrom ==
    /\ pc = "recvfrom"
    /\ \/ \* -EAGAIN: Ok(false), process_incoming returns Ok(())
          /\ NoDatagramPending(inQ)
          /\ Goto("poll")
          /\ revents' = NoEvents
          /\ UNCHANGED <<inQ, recvd, loopExit, logged>>
       \/ \* any other error: Err, logged by run_event_loop, which returns
          /\ LeaveLoop("seat_request_failed")
          /\ UNCHANGED <<inQ, recvd, revents, logged>>
       \/ \* a datagram
          /\ inQ # <<>>
          /\ inQ' = Tail(inQ)
          /\ IF WellFormed(Received(Head(inQ)))
             THEN recvd' = recvd + 1 /\ logged' = FALSE /\ Goto("open")
             ELSE UNCHANGED <<recvd, logged>> /\ Goto("recvfrom")
          /\ UNCHANGED <<revents, loopExit>>
    /\ UNCHANGED <<kvars, uiPid, childPc, childTrace, clientSent, outQ, devFd, sendCalls, sentOk,
                   resp, svars>>
    /\ UNCHANGED hvars

\* linux::open(buf, O_RDWR | O_NOCTTY | O_NOFOLLOW | O_CLOEXEC | O_NONBLOCK)
open ==
    /\ pc = "open"
    /\ \E fd \in OpenResults :
        /\ devFd' = fd
        /\ handles' = [handles EXCEPT !["dev_fd"] =
                          IF fd < 0 THEN NoHandle ELSE Opened({"FD_CLOEXEC"})]
        /\ Goto(AfterOpen(fd))
    /\ UNCHANGED <<kvars, lvars, clientSent, inQ, outQ, recvd, sendCalls, sentOk,
                   resp, logged, svars>>
    /\ UNCHANGED <<mountTried, inherited, dvars, mvars, xvars>>

\* sendmsg(fd, &mut msg, 0) on the blocking socket: the message is queued
\* when the peer's receive queue has room, the call fails (logged), or,
\* the queue being full, it does not return until the peer has read.
SendBlocked == pc = "sendmsg" /\ Len(outQ) >= QCap

\* A process_incoming_one that lets no Fd value go out of scope.
process_incoming_one_locals_forgotten == <<>>

\* process_incoming_one returns: dev_fd, the one Fd value it declares, goes
\* out of scope.
process_incoming_one_locals == <<"dev_fd">>

sendmsg ==
    /\ pc = "sendmsg"
    /\ ~SendBlocked
    /\ sendCalls' = sendCalls + 1
    /\ resp' = Response(devFd)
    /\ \/ /\ outQ' = Append(outQ, Response(devFd))
          /\ sentOk' = sentOk + 1
          /\ UNCHANGED logged
          /\ DropAll(process_incoming_one_locals, "recvfrom")
       \/ \* the send fails and is logged; dev_fd is dropped on return
          /\ UNCHANGED <<outQ, sentOk>>
          /\ logged' = TRUE
          /\ DropAll(process_incoming_one_locals, "recvfrom")
       \/ \* the send fails and its log line panics: dev_fd is not dropped
          /\ UNCHANGED <<outQ, sentOk, logged, handles>>
          /\ Panic
    /\ UNCHANGED <<kvars, lvars, clientSent, inQ, devFd, recvd, svars>>
    /\ UNCHANGED <<mountTried, inherited, dvars, mvars, xvars>>

\* The compositor (the UI process), while it runs: it sends a datagram on
\* its end of the socket pair, or reads a response from it.
ClientSend ==
    /\ pc \in {"late_init", "ack_error", "poll", "read_signalfd", "wait4", "recvfrom",
               "open", "sendmsg"}
    /\ uiPid \in children
    /\ clientSent < MaxRequests
    /\ clientSent' = clientSent + 1
    /\ \E d \in Datagrams : inQ' = Append(inQ, d)
    /\ UNCHANGED <<pc, panicFrom, kvars, lvars, outQ, devFd, recvd, sendCalls,
                   sentOk, resp, logged, svars>>
    /\ UNCHANGED hvars

ClientRecv ==
    /\ pc \in {"late_init", "ack_error", "poll", "read_signalfd", "wait4", "recvfrom",
               "open", "sendmsg"}
    /\ uiPid \in children
    /\ outQ # <<>>
    /\ outQ' = Tail(outQ)
    /\ UNCHANGED <<pc, panicFrom, kvars, lvars, clientSent, inQ, devFd, recvd,
                   sendCalls, sentOk, resp, logged, svars>>
    /\ UNCHANGED hvars

\* run_event_loop returns: seat_compositor_fd, seat_server and signalfd go
\* out of scope, in the reverse of the order they were declared in (and
\* so does fds, the pollfd array).
run_event_loop_locals == <<"seat_compositor", "seat_server", "signalfd">>

\* The seat server is gone with its sockets: what was queued on them is
\* discarded, and the record of the requests it served ends here.
NoBroker ==
    /\ clientSent' = 0
    /\ inQ' = <<>>
    /\ outQ' = <<>>
    /\ devFd' = -1
    /\ recvd' = 0
    /\ sendCalls' = 0
    /\ sentOk' = 0
    /\ resp' = [len |-> IovLen, fds |-> <<>>]
    /\ logged' = FALSE

run_event_loop_return ==
    /\ pc = "run_event_loop_return"
    /\ DropAll(run_event_loop_locals, "graceful_shutdown")
    /\ IF pc' = "panic" THEN UNCHANGED bvars ELSE NoBroker
    /\ revents' = IF pc' = "panic" THEN revents ELSE NoEvents
    /\ UNCHANGED <<kvars, uiPid, childPc, childTrace, loopExit, svars>>
    /\ UNCHANGED <<mountTried, inherited, dvars, mvars, xvars>>

\* ------------------------------------------------------ graceful_shutdown
\* The calls of graceful_shutdown after its first log line, in order.
graceful_shutdown_calls_unmount_first ==
    <<"write_kernel_log", "sync", "unmount_all", "end_all_processes", "power_off">>

graceful_shutdown_calls ==
    <<"write_kernel_log", "sync", "end_all_processes", "unmount_all", "power_off">>

\* Where control goes when the call `from` of graceful_shutdown returns;
\* after the last one _start calls linux::exit(0).
Return(from) ==
    LET gs == graceful_shutdown_calls
        i == CHOOSE j \in 1..Len(gs) : gs[j] = from
    IN IF i < Len(gs) THEN gs[i + 1] ELSE "exit"

\* run_event_loop has returned;
\* writeln!(Stdout, "shutting down...").unwrap();
graceful_shutdown ==
    /\ pc = "graceful_shutdown"
    /\ shutdownRuns' = shutdownRuns + 1
    /\ LogGoto(graceful_shutdown_calls[1])
    /\ UNCHANGED <<kvars, lvars, bvars, broadcast, reapState, lines, cursor,
                   umountCalls, umountPass, syncs, powerOffs, waitRet>>
    /\ UNCHANGED hvars

\* Result<i32, i32> of spawn_and_wait_with_pre_exec; NoResult while it
\* has not returned.
Ok(status) == [ok |-> TRUE, val |-> status]
Err(e) == [ok |-> FALSE, val |-> e]
NoResult == [ok |-> FALSE, val |-> 0]

\* The wait status of a child that called exit(code).
WaitStatus(code) == code * 256

\* write_kernel_log(): open /var/log/dmesg into an Fd, then
\* spawn_and_wait_with_pre_exec(/bin/dmesg, .., dmesg_pre_exec, fd), whose
\* clone(CLONE_VM | CLONE_VFORK) fails (Err(pid), no wait) or starts the
\* child in spawn_helper and suspends the caller.
write_kernel_log ==
    /\ pc = "write_kernel_log"
    /\ \/ \* the open fails: logged, return
          /\ LogGoto(Return("write_kernel_log"))
          /\ UNCHANGED <<children, sigPending, handles, dvars>>
       \/ \* the clone fails: if pid < 0 { return Err(pid); }
          /\ handles' = [handles EXCEPT !["dmesg_fd"] = Opened({})]
          /\ spawnRet' = Err(-ENOMEM)
          /\ Goto("write_kernel_log_match")
          /\ UNCHANGED <<children, sigPending, dmesgPc, waitCalls>>
       \/ \* dmesg is cloned
          /\ handles' = [handles EXCEPT !["dmesg_fd"] = Opened({})]
          /\ children' = children \cup {DmesgPid}
          /\ dmesgPc' = "pre_exec"
          /\ Goto("spawn_and_wait")
          /\ UNCHANGED <<sigPending, spawnRet, waitCalls>>
    /\ UNCHANGED <<mounts, zombies, sigBlocked, lvars, bvars, svars>>
    /\ UNCHANGED <<mountTried, inherited, mvars, xvars>>

\* The child of write_kernel_log, in spawn_helper: dmesg_pre_exec (dup2 of
\* the log descriptor onto 1; a failure is logged with an unwrapped
\* writeln and returns false), then execve or exit(1).
dmesg_spawn_helper ==
    /\ dmesgPc = "pre_exec"
    /\ \E hook \in {"true", "false", "panic"} :
        IF hook = "panic"
        THEN dmesgPc' = "halted" /\ UNCHANGED <<children, zombies, sigPending>>
        ELSE \E ret \in {0, -EINVAL} :
                IF AfterPreExec(hook = "true") = "execve" /\ ret = 0
                THEN dmesgPc' = "execd" /\ UNCHANGED <<children, zombies, sigPending>>
                ELSE /\ dmesgPc' = "exited"
                     /\ children' = children \ {DmesgPid}
                     /\ zombies' = zombies \cup {DmesgPid}
                     /\ sigPending' = (sigPending \/ sigBlocked)
    /\ UNCHANGED <<pc, panicFrom, mounts, sigBlocked, lvars, bvars, svars>>
    /\ UNCHANGED <<mountTried, handles, inherited, spawnRet, waitCalls, mvars, xvars>>

\* let ret = wait4(pid, &mut status, 0, null): the pid argument.
Wait4Target_any(pid) == -1

Wait4Target(pid) == pid

\* The children a blocking wait4 on `target` can reap (-1: any child).
Reapable(target) == IF target = -1 THEN zombies ELSE zombies \cap {target}

\* The wait status of zombie p: spawn_helper's exit(1) when the hook or
\* execve failed, and whatever the program exited with otherwise.
Statuses(p) ==
    IF p = DmesgPid /\ dmesgPc = "exited"
    THEN {WaitStatus(ExitCode)}
    ELSE {WaitStatus(0), WaitStatus(ExitCode)}

\* The caller of spawn_and_wait_with_pre_exec, resumed once the child has
\* exec'd or exited: wait4 blocks until a child it names has exited and
\* returns its pid and status (Ok(status)), or fails (Err(ret)).
spawn_and_wait ==
    /\ pc = "spawn_and_wait"
    /\ dmesgPc \in {"execd", "exited"}
    /\ waitCalls' = Append(waitCalls, Wait4Target(DmesgPid))
    /\ \/ \E p \in Reapable(Wait4Target(DmesgPid)) : \E st \in Statuses(p) :
             /\ zombies' = zombies \ {p}
             /\ spawnRet' = Ok(st)
       \/ /\ spawnRet' = Err(-EINTR)
          /\ UNCHANGED zombies
    /\ Goto("write_kernel_log_match")
    /\ UNCHANGED <<mounts, children, sigBlocked, sigPending, lvars, bvars, svars>>
    /\ UNCHANGED <<mountTried, handles, inherited, dmesgPc, mvars, xvars>>

\* match ret { Ok(code) => if code != 0 { log }, Err(e) => log }, and the
\* return of write_kernel_log, which drops fd.
write_kernel_log_match ==
    /\ pc = "write_kernel_log_match"
    /\ \/ /\ DropAll(<<"dmesg_fd">>, Return("write_kernel_log"))
          /\ IF pc' = "panic"
             THEN UNCHANGED dvars
             ELSE dmesgPc' = "none" /\ spawnRet' = NoResult /\ waitCalls' = <<>>
       \/ /\ ~spawnRet.ok \/ spawnRet.val # 0
          /\ Panic
          /\ UNCHANGED <<handles, dvars>>
    /\ UNCHANGED <<kvars, lvars, bvars, svars>>
    /\ UNCHANGED <<mountTried, inherited, mvars, xvars>>

\* linux::sync()
sync ==
    /\ pc = "sync"
    /\ syncs' = syncs + 1
    /\ Goto(Return("sync"))
    /\ UNCHANGED <<kvars, lvars, bvars, shutdownRuns, broadcast, reapState, lines,
                   cursor, umountCalls, umountPass, powerOffs, waitRet>>
    /\ UNCHANGED hvars

\* What kill(-1, SIGTERM) returns (0, or minus the errno): ESRCH when there
\* is no process to signal, otherwise success or an error (EINVAL stands for
\* any errno the code does not test for).
KillResults ==
    IF children \cup zombies = {} THEN {-ESRCH} ELSE {0, -EINVAL}

\* What end_all_processes does with the result of the broadcast: enter the
\* reap loop, return silently, or log and return.
BroadcastDecision_always_reap(ret) ==
    IF ret = -ESRCH \/ ret >= 0 THEN "reap" ELSE "log_return"

BroadcastDecision(ret) ==
    IF ret >= 0 THEN "reap"
    ELSE IF ret = -ESRCH THEN "return"
    ELSE "log_return"

\* shutdown::end_all_processes(), the broadcast: kill(-1, SIGTERM).
end_all_processes ==
    /\ pc = "end_all_processes"
    /\ broadcast' = broadcast + 1
    /\ \E ret \in KillResults :
        /\ killRet' = ret
        /\ LET d == BroadcastDecision(ret) IN
            \/ /\ d = "reap"
               /\ reapState' = "running"
               /\ Goto("wait")
            \/ /\ d = "return"
               /\ reapState' = "skipped"
               /\ Goto(Return("end_all_processes"))
            \/ /\ d = "log_return"
               /\ LogGoto(Return("end_all_processes"))
               /\ reapState' = IF pc' = "panic" THEN reapState ELSE "skipped"
    /\ UNCHANGED <<kvars, lvars, bvars, shutdownRuns, lines, cursor, umountCalls,
                   umountPass, syncs, powerOffs, waitRet>>
    /\ UNCHANGED <<mountTried, handles, inherited, dvars, mvars, uvars, bgPc>>

\* What libc::wait(null) returns (a pid, or minus the errno): an exited child
\* if there is one, ECHILD if there is no child at all; with children that
\* all still run the call blocks, and returns only if it is interrupted
\* (EINTR) or fails (EINVAL stands for any other errno).
WaitResults ==
    IF zombies # {} THEN zombies
    ELSE IF children = {} THEN {-ECHILD}
    ELSE {-EINTR, -EINVAL}

\* The match on the result of wait in the reap loop.
WaitDecision_nointr(ret) ==
    IF ret >= 0 THEN "continue"
    ELSE IF ret = -ECHILD THEN "break"
    ELSE "log_break"

WaitDecision(ret) ==
    IF ret >= 0 THEN "continue"
    ELSE IF ret = -ECHILD THEN "break"
    ELSE IF ret = -EINTR THEN "continue"
    ELSE "log_break"

\* One turn of the reap loop of end_all_processes.
wait ==
    /\ pc = "wait"
    /\ \E ret \in WaitResults :
        /\ waitRet' = ret
        /\ zombies' = zombies \ {ret}
        /\ LET d == WaitDecision(ret) IN
            \/ /\ d = "continue"
               /\ Goto("wait")
               /\ UNCHANGED reapState
            \/ /\ d = "break"
               /\ reapState' = "ended"
               /\ Goto(Return("end_all_processes"))
            \/ /\ d = "log_break"
               /\ LogGoto(Return("end_all_processes"))
               /\ reapState' = IF pc' = "panic" THEN reapState ELSE "ended"
    /\ UNCHANGED <<mounts, children, sigBlocked, sigPending, lvars, bvars,
                   shutdownRuns, broadcast, lines, cursor, umountCalls, umountPass,
                   syncs, powerOffs>>
    /\ UNCHANGED hvars

\* --------------------------------------------------------- unmount_all
\* A line of /proc/self/mounts as the kernel writes it:
\* device, mount point, type, options, dump, pass.
MountsLine(m) == <<m.device, m.dir, m.fs_type, "rw", "0", "0">>
MountsFile(ms) == [i \in 1..Len(ms) |-> MountsLine(ms[i])]

\* Iterator::nth(n) over the whitespace-separated fields: the field of
\* zero-based index n, as <<field>>, or <<>> for None.
Nth(fields, n) == IF n + 1 <= Len(fields) THEN <<fields[n + 1]>> ELSE <<>>

\* line.split_ascii_whitespace().nth(5)
mountpoint(line) == Nth(line, 5)

\* The mount the kernel resolves an umount target to: the one mounted last
\* on that path (0 if the path is not a mount point).
MountIndex(target) ==
    LET I == { i \in 1..Len(mounts) : mounts[i].dir = target }
    IN IF I = {} THEN 0 ELSE CHOOSE i \in I : \A j \in I : j <= i

\* The path a mount point lies directly under.
ParentDir(dir) == IF dir \in {"/dev/pts", "/dev/shm"} THEN "/dev" ELSE "/"

\* umount fails with EBUSY on a mount that holds another mount, and on the
\* root.
Busy(target) ==
    \/ target = "/"
    \/ \E i \in 1..Len(mounts) : mounts[i].dir # target /\ ParentDir(mounts[i].dir) = target

RemoveAt(s, i) == SubSeq(s, 1, i - 1) \o SubSeq(s, i + 1, Len(s))

\* File::open("/proc/self/mounts") and read_to_string: a failure is logged
\* and ends the pass; /proc has to be mounted for the open to succeed.
unmount_all ==
    /\ pc = "unmount_all"
    /\ \/ /\ "/proc" \in Dirs(mounts)
          /\ lines' = MountsFile(mounts)
          /\ cursor' = Len(mounts)
          /\ umountPass' = "running"
          /\ Goto("umount")
       \/ /\ LogGoto(Return("unmount_all"))
          /\ umountPass' = IF pc' = "panic" THEN umountPass ELSE "done"
          /\ UNCHANGED <<lines, cursor>>
    /\ UNCHANGED <<kvars, lvars, bvars, shutdownRuns, broadcast, reapState,
                   umountCalls, syncs, powerOffs, waitRet>>
    /\ UNCHANGED hvars

\* One turn of `for line in lines.lines().rev()`: the mount point is taken
\* from the line and libc::umount is called on it; a failure is logged.
umount ==
    /\ pc = "umount"
    /\ \/ /\ cursor = 0
          /\ umountPass' = "done"
          /\ Goto(Return("unmount_all"))
          /\ UNCHANGED <<cursor, umountCalls, mounts>>
       \/ /\ cursor > 0
          /\ mountpoint(lines[cursor]) = <<>>
          /\ LogGoto(Return("unmount_all"))
          /\ umountPass' = IF pc' = "panic" THEN umountPass ELSE "done"
          /\ UNCHANGED <<cursor, umountCalls, mounts>>
       \/ /\ cursor > 0
          /\ mountpoint(lines[cursor]) # <<>>
          /\ LET target == mountpoint(lines[cursor])[1] IN
              /\ umountCalls' = Append(umountCalls, target)
              /\ \/ /\ MountIndex(target) # 0
                    /\ ~Busy(target)
                    /\ mounts' = RemoveAt(mounts, MountIndex(target))
                    /\ Goto("umount")
                 \/ /\ UNCHANGED mounts
                    /\ LogGoto("umount")
          /\ cursor' = cursor - 1
          /\ UNCHANGED umountPass
    /\ UNCHANGED <<children, zombies, sigBlocked, sigPending, lvars, bvars,
                   shutdownRuns, broadcast, reapState, lines, syncs, powerOffs, waitRet>>
    /\ UNCHANGED hvars

\* shutdown::power_off(): reboot(RB_POWER_OFF) powers the machine off, or
\* fails and returns.
power_off ==
    /\ pc = "power_off"
    /\ powerOffs' = powerOffs + 1
    /\ \/ Goto("off")
       \/ Goto(Return("power_off"))
    /\ UNCHANGED <<kvars, lvars, bvars, shutdownRuns, broadcast, reapState, lines,
                   cursor, umountCalls, umountPass, syncs, waitRet>>
    /\ UNCHANGED hvars

\* linux::exit(0) at the end of _start.
exit ==
    /\ pc = "exit"
    /\ Goto("exited")
    /\ UNCHANGED <<kvars, lvars, bvars, svars>>
    /\ UNCHANGED hvars

\* ---------------------------------------------------- read_mounts_from_fd
\* b' ' and b'\n', and the size of buf.
SP == 32
NL == 10
BufSize == 128

\* A line of /proc/mounts with the given mount point: device, mount point
\* and the rest of the line ("d <dir> x\n").
MountLine(dir) == <<100, SP>> \o dir \o <<SP, 120, NL>>

RECURSIVE MountTable(_)
MountTable(dirs) ==
    IF dirs = <<>> THEN <<>> ELSE MountLine(Head(dirs)) \o MountTable(Tail(dirs))

\* The mount points a table may hold: "/" and "/a".
MountDirs == { <<47>>, <<47, 97>> }

\* The tables read: one to MaxLines lines.
MountLists == UNION { [1..k -> MountDirs] : k \in 1..MaxLines }

\* remaining.iter().position(|b| *b == byte): the index from 0, -1 for None.
Position(remaining, byte) ==
    IF \E i \in 1..Len(remaining) : remaining[i] = byte
    THEN (CHOOSE i \in 1..Len(remaining) :
              /\ remaining[i] = byte
              /\ \A j \in 1..(i - 1) : remaining[j] # byte) - 1
    ELSE -1

\* What the inner loop leaves: the parser state, out[..cursor], and the
\* error it returned with (0 if it did not return).
Parsed(state, o, err) == [state |-> state, out |-> o, err |-> err]

\* A test that lets the terminating NUL take the last byte and leaves the
\* cursor at out.len().
NoRoom_offbyone(at, len) == at + len >= OutLen

\* `cursor + p + 1 >= out.len()`: len bytes and their NUL do not fit after
\* the cursor.
NoRoom(at, len) == at + len + 1 >= OutLen

\* The inner loop of read_mounts_from_fd over buf[..n], from `done` on.
RECURSIVE ParseChunk(_, _, _, _)
ParseChunk(state, o, buf, done) ==
    LET remaining == SubSeq(buf, done + 1, Len(buf)) IN
    IF state = "BeforeDirectory"
    THEN LET p == Position(remaining, SP) IN
         IF p < 0 THEN Parsed(state, o, 0)
         ELSE IF done + p + 1 >= BufSize THEN Parsed("Directory", o, 0)
         ELSE ParseChunk("Directory", o, buf, done + p + 1)
    ELSE IF state = "Directory"
    THEN LET p == Position(remaining, SP) IN
         IF p >= 0
         THEN IF NoRoom(Len(o), p) THEN Parsed(state, o, -ENOMEM)
              ELSE LET o2 == o \o SubSeq(remaining, 1, p) \o <<NUL>> IN
                   IF done + p + 1 >= BufSize THEN Parsed("AfterDirectory", o2, 0)
                   ELSE ParseChunk("AfterDirectory", o2, buf, done + p + 1)
         ELSE IF NoRoom(Len(o), Len(remaining)) THEN Parsed(state, o, -ENOMEM)
              ELSE Parsed(state, o \o remaining \o <<NUL>>, 0)
    ELSE LET p == Position(remaining, NL) IN
         IF p < 0 THEN Parsed(state, o, 0)
         ELSE IF done + p + 1 >= BufSize THEN Parsed("BeforeDirectory", o, 0)
         ELSE ParseChunk("BeforeDirectory", o, buf, done + p + 1)

\* One iteration of the outer loop: linux::read(fd, buf, buf.len()) returns
\* 0 at the end of the file (break, return cursor), a negative value
\* (returned as it is), or n bytes, 1 <= n <= buf.len(), which the inner
\* loop goes through.
read_mounts_from_fd ==
    /\ mfile # <<>>
    /\ ~returned
    /\ \/ /\ mpos = Len(mfile)
          /\ returned' = TRUE
          /\ parseRet' = Len(out)
          /\ UNCHANGED <<mpos, mstate, out, reads>>
       \/ /\ returned' = TRUE
          /\ parseRet' = -EINTR
          /\ UNCHANGED <<mpos, mstate, out, reads>>
       \/ \E n \in 1..Min(BufSize, Len(mfile) - mpos) :
            LET r == ParseChunk(mstate, out, SubSeq(mfile, mpos + 1, mpos + n), 0) IN
            /\ mpos' = mpos + n
            /\ reads' = reads + 1
            /\ mstate' = r.state
            /\ out' = r.out
            /\ returned' = (r.err < 0)
            /\ parseRet' = r.err
    /\ UNCHANGED <<mdirs, mfile>>
    /\ UNCHANGED <<pc, panicFrom, kvars, lvars, bvars, svars>>
    /\ UNCHANGED <<mountTried, handles, inherited, dvars, xvars>>

\* ------------------------------------------------ src/init (older variant)
\* mount_early of src/init/src/main.rs: the mounts in the order of the
\* calls, each with `?`.
init_mounts_early ==
    << Mount("none", "/dev", "devtmpfs"),
       Mount("none", "/dev/shm", "tmpfs"),
       Mount("none", "/dev/pts", "devpts"),
       Mount("none", "/tmp", "tmpfs"),
       Mount("none", "/run", "tmpfs"),
       Mount("none", "/proc", "proc"),
       Mount("none", "/sys", "sysfs"),
       Mount("/dev/nvme0n1p2", "/bubble", "btrfs") >>

\* The mount of background_init.
init_mount_boot == Mount("/dev/nvme0n1p1", "/boot", "vfat")

\* The positions of the thread of background_init before its mount call
\* has returned.
BackgroundPending == {"set_kernel_opts", "setup_networking", "mount"}

\* The process of the supervisor is there: reboot has not powered the
\* machine off and main has not been left.
InitAlive == pc \notin {"init::off", "init::exited"}

\* What the init variant leaves alone: the state of the src/src supervisor
\* it has no counterpart of.
InitUnchanged ==
    /\ UNCHANGED <<panicFrom, sigBlocked, sigPending, childPc, childTrace, revents,
                   loopExit, bvars, shutdownRuns, reapState, waitRet>>
    /\ UNCHANGED <<mountTried, handles, inherited, dvars, mvars, killRet, uvars>>

\* eprintln! inside unsafe_main: the line is written and control goes on to
\* `next`, or the write fails, eprintln! panics and catch_unwind in main
\* catches it.
InitLogGoto(next) == pc' = next \/ pc' = "init::caught"

\* eprintln! in main and in the shutdown functions it calls: a panic there
\* unwinds out of main and the process ends.
MainLogGoto(next) == pc' = next \/ pc' = "init::exited"

\* unsafe_main: mount_early(), whose first failing call ends it with Err,
\* which is logged.
init_mount_early ==
    /\ pc = "init::mount_early"
    /\ \E k \in 0..Len(init_mounts_early) :
        /\ mounts' = mounts \o SubSeq(init_mounts_early, 1, k)
        /\ IF k = Len(init_mounts_early)
           THEN pc' = "init::thread_spawn"
           ELSE InitLogGoto("init::thread_spawn")
    /\ UNCHANGED <<children, zombies, uiPid, broadcast, lines, cursor, umountCalls,
                   umountPass, syncs, powerOffs, bgPc>>
    /\ InitUnchanged

\* thread::spawn(background_init): the handle is dropped, the thread is
\* detached; thread::spawn panics when no thread can be created.
init_thread_spawn ==
    /\ pc = "init::thread_spawn"
    /\ \/ bgPc' = "set_kernel_opts" /\ pc' = "init::start_ui"
       \/ bgPc' = bgPc /\ pc' = "init::caught"
    /\ UNCHANGED <<kvars, uiPid, broadcast, lines, cursor, umountCalls, umountPass,
                   syncs, powerOffs>>
    /\ InitUnchanged

\* ui::start_ui(): the UI process is there, or the error is logged and
\* unsafe_main returns.
init_start_ui ==
    /\ pc = "init::start_ui"
    /\ \/ /\ uiPid' = SwayPid
          /\ children' = children \cup {SwayPid}
          /\ pc' = "init::wait"
       \/ /\ UNCHANGED <<uiPid, children>>
          /\ InitLogGoto("init::sync")
    /\ UNCHANGED <<mounts, zombies, broadcast, lines, cursor, umountCalls, umountPass,
                   syncs, powerOffs, bgPc>>
    /\ InitUnchanged

\* The UI process exits, by itself or on the SIGTERM of the broadcast.
init_ui_exit ==
    /\ InitAlive
    /\ uiPid \in children
    /\ children' = children \ {uiPid}
    /\ zombies' = zombies \cup {uiPid}
    /\ UNCHANGED <<pc, mounts, uiPid, broadcast, lines, cursor, umountCalls, umountPass,
                   syncs, powerOffs, bgPc>>
    /\ InitUnchanged

\* The loop of unsafe_main: libc::wait(NULL) blocks until a child has
\* exited and reaps it; the loop ends with the UI process. A failed wait
\* is logged and unsafe_main returns.
init_wait ==
    /\ pc = "init::wait"
    /\ \/ \E p \in zombies :
            /\ zombies' = zombies \ {p}
            /\ pc' = IF p = uiPid THEN "init::sync" ELSE "init::wait"
       \/ /\ UNCHANGED zombies
          /\ InitLogGoto("init::sync")
    /\ UNCHANGED <<mounts, children, uiPid, broadcast, lines, cursor, umountCalls,
                   umountPass, syncs, powerOffs, bgPc>>
    /\ InitUnchanged

\* main: catch_unwind returned Err, which is logged.
init_caught ==
    /\ pc = "init::caught"
    /\ MainLogGoto("init::sync")
    /\ UNCHANGED <<kvars, uiPid, broadcast, lines, cursor, umountCalls, umountPass,
                   syncs, powerOffs, bgPc>>
    /\ InitUnchanged

\* main: libc::sync()
init_sync ==
    /\ pc = "init::sync"
    /\ syncs' = syncs + 1
    /\ pc' = "init::kill_all_processes"
    /\ UNCHANGED <<kvars, uiPid, broadcast, lines, cursor, umountCalls, umountPass,
                   powerOffs, bgPc>>
    /\ InitUnchanged

\* kill_all_processes: kill(-1, SIGTERM), a failure being logged; the wait
\* loop follows in both cases.
init_kill_all_processes ==
    /\ pc = "init::kill_all_processes"
    /\ broadcast' = broadcast + 1
    /\ MainLogGoto("init::reap")
    /\ UNCHANGED <<kvars, uiPid, lines, cursor, umountCalls, umountPass, syncs,
                   powerOffs, bgPc>>
    /\ InitUnchanged

\* The loop of kill_all_processes: libc::wait(NULL) reaps a child that has
\* exited, or fails: with ECHILD when no child is left, with another error,
\* which is logged; any failure ends the loop.
init_reap ==
    /\ pc = "init::reap"
    /\ \/ \E p \in zombies : zombies' = zombies \ {p} /\ pc' = "init::reap"
       \/ /\ children = {} /\ zombies = {}
          /\ UNCHANGED zombies
          /\ pc' = "init::unmount_all"
       \/ /\ UNCHANGED zombies
          /\ MainLogGoto("init::unmount_all")
    /\ UNCHANGED <<mounts, children, uiPid, broadcast, lines, cursor, umountCalls,
                   umountPass, syncs, powerOffs, bgPc>>
    /\ InitUnchanged

\* unmount_all of src/init: /proc/self/mounts is read once, as it is at
\* that moment; a failure to open or read it is logged and ends the pass.
init_unmount_all ==
    /\ pc = "init::unmount_all"
    /\ \/ /\ "/proc" \in Dirs(mounts)
          /\ lines' = MountsFile(mounts)
          /\ cursor' = Len(mounts)
          /\ umountPass' = "running"
          /\ pc' = "init::umount"
       \/ /\ MainLogGoto("init::reboot")
          /\ umountPass' = IF pc' = "init::exited" THEN umountPass ELSE "done"
          /\ UNCHANGED <<lines, cursor>>
    /\ UNCHANGED <<kvars, uiPid, broadcast, umountCalls, syncs, powerOffs, bgPc>>
    /\ InitUnchanged

\* One turn of `for line in lines.lines().rev()` in src/init.
init_umount ==
    /\ pc = "init::umount"
    /\ \/ /\ cursor = 0
          /\ umountPass' = "done"
          /\ pc' = "init::reboot"
          /\ UNCHANGED <<cursor, umountCalls, mounts>>
       \/ /\ cursor > 0
          /\ mountpoint(lines[cursor]) = <<>>
          /\ MainLogGoto("init::reboot")
          /\ umountPass' = IF pc' = "init::exited" THEN umountPass ELSE "done"
          /\ UNCHANGED <<cursor, umountCalls, mounts>>
       \/ /\ cursor > 0
          /\ mountpoint(lines[cursor]) # <<>>
          /\ LET target == mountpoint(lines[cursor])[1] IN
              /\ umountCalls' = Append(umountCalls, target)
              /\ \/ /\ MountIndex(target) # 0
                    /\ ~Busy(target)
                    /\ mounts' = RemoveAt(mounts, MountIndex(target))
                    /\ pc' = "init::umount"
                 \/ /\ UNCHANGED mounts
                    /\ MainLogGoto("init::umount")
          /\ cursor' = cursor - 1
          /\ UNCHANGED umountPass
    /\ UNCHANGED <<children, zombies, uiPid, broadcast, lines, syncs, powerOffs, bgPc>>
    /\ InitUnchanged

\* main: libc::reboot(RB_POWER_OFF) powers the machine off, or fails and
\* main returns.
init_reboot ==
    /\ pc = "init::reboot"
    /\ powerOffs' = powerOffs + 1
    /\ pc' = "init::off" \/ pc' = "init::exited"
    /\ UNCHANGED <<kvars, uiPid, broadcast, lines, cursor, umountCalls, umountPass,
                   syncs, bgPc>>
    /\ InitUnchanged

\* eprintln! in the thread of background_init: a panic ends that thread
\* only.
BackgroundLogGoto(next) == bgPc' = next \/ bgPc' = "panicked"

\* background_init: kernel_opts::set_kernel_opts()
background_set_kernel_opts ==
    /\ InitAlive
    /\ bgPc = "set_kernel_opts"
    /\ BackgroundLogGoto("setup_networking")
    /\ UNCHANGED <<pc, kvars, uiPid, broadcast, lines, cursor, umountCalls, umountPass,
                   syncs, powerOffs>>
    /\ InitUnchanged

\* background_init: net::setup_networking()
background_setup_networking ==
    /\ InitAlive
    /\ bgPc = "setup_networking"
    /\ BackgroundLogGoto("mount")
    /\ UNCHANGED <<pc, kvars, uiPid, broadcast, lines, cursor, umountCalls, umountPass,
                   syncs, powerOffs>>
    /\ InitUnchanged

\* background_init: mount(/dev/nvme0n1p1, /boot, vfat), a failure being
\* logged; background_init returns and the thread ends.
background_mount ==
    /\ InitAlive
    /\ bgPc = "mount"
    /\ \/ mounts' = Append(mounts, init_mount_boot) /\ bgPc' = "done"
       \/ UNCHANGED mounts /\ BackgroundLogGoto("done")
    /\ UNCHANGED <<pc, children, zombies, uiPid, broadcast, lines, cursor, umountCalls,
                   umountPass, syncs, powerOffs>>
    /\ InitUnchanged

\* ---------------------------------------------------------------- unquote
\* '\'', '"' and '\\'.
SQ == 39
DQ == 34
BS == 92

\* The characters of the strings unquote is run on: a letter, the two quote
\* characters and the backslash.
UnquoteChars == {97, SQ, DQ, BS}

\* The strings of the profile values: every string of at most MaxStr
\* characters.
UnquoteStrings == UNION { [1..k -> UnquoteChars] : k \in 0..MaxStr }

\* The input and the output of the doc comment: he'llo' "wo\"l'"d and
\* hello worl'd.
DocumentedInput ==
    <<104, 101, SQ, 108, 108, 111, SQ, SP, DQ, 119, 111, BS, DQ, 108, SQ, DQ, 100>>
DocumentedOutput ==
    <<104, 101, 108, 108, 111, SP, 119, 111, 114, 108, SQ, 100>>

\* The messages of the two assertions.
NotFollowed == "backslash is not followed by character"
Unfinished == "unfinished quoting"

\* One iteration of `for c in s.chars()`.
unquote_char ==
    /\ ustate = "loop"
    /\ upos < Len(ustr)
    /\ upos' = upos + 1
    /\ LET c == ustr[upos + 1] IN
       IF ~escaping
       THEN IF c = BS
            THEN escaping' = TRUE /\ UNCHANGED <<res, quote>>
            ELSE IF quote = NUL /\ (c = SQ \/ c = DQ)
            THEN quote' = c /\ UNCHANGED <<res, escaping>>
            ELSE IF c = quote
            THEN quote' = NUL /\ UNCHANGED <<res, escaping>>
            ELSE res' = Append(res, c) /\ UNCHANGED <<quote, escaping>>
       ELSE escaping' = FALSE /\ res' = Append(res, c) /\ UNCHANGED quote
    /\ UNCHANGED <<ustr, ustate>>
    /\ UNCHANGED <<pc, panicFrom, kvars, lvars, bvars, svars>>
    /\ UNCHANGED <<mountTried, handles, inherited, dvars, mvars, killRet, bgPc>>

\* The end of the string: the two assertions, then res is returned.
unquote_return ==
    /\ ustate = "loop"
    /\ upos = Len(ustr)
    /\ ustate' = IF escaping THEN NotFollowed
                 ELSE IF quote # NUL THEN Unfinished
                 ELSE "returned"
    /\ UNCHANGED <<ustr, upos, res, quote, escaping>>
    /\ UNCHANGED <<pc, panicFrom, kvars, lvars, bvars, svars>>
    /\ UNCHANGED <<mountTried, handles, inherited, dvars, mvars, killRet, bgPc>>

\* ------------------------------------------------------- specification
\* The kernel and the supervisor's variables when the supervisor is
\* started; the src/src supervisor when _start is entered.
Reset ==
    /\ panicFrom = "none"
    /\ mounts = <<RootMount>>
    /\ children = {}
    /\ zombies = {}
    /\ sigBlocked = FALSE
    /\ sigPending = FALSE
    /\ uiPid = 0
    /\ childPc = "none"
    /\ childTrace = <<>>
    /\ revents = NoEvents
    /\ loopExit = "none"
    /\ clientSent = 0
    /\ inQ = <<>>
    /\ outQ = <<>>
    /\ devFd = -1
    /\ recvd = 0
    /\ sendCalls = 0
    /\ sentOk = 0
    /\ resp = Response(-1)
    /\ logged = FALSE
    /\ shutdownRuns = 0
    /\ broadcast = 0
    /\ reapState = "not_started"
    /\ lines = <<>>
    /\ cursor = 0
    /\ umountCalls = <<>>
    /\ umountPass = "not_started"
    /\ syncs = 0
    /\ powerOffs = 0
    /\ waitRet = 0
    /\ mountTried = <<>>
    /\ handles = [n \in HandleNames |-> NoHandle]
    /\ inherited = {}
    /\ dmesgPc = "none"
    /\ spawnRet = NoResult
    /\ waitCalls = <<>>
    /\ killRet = 1
    /\ bgPc = "none"

Boot ==
    /\ pc = "_start"
    /\ Reset

\* read_mounts_from_fd has not been called.
NoParse ==
    /\ mdirs = <<>>
    /\ mfile = <<>>
    /\ mpos = 0
    /\ mstate = "BeforeDirectory"
    /\ out = <<>>
    /\ reads = 0
    /\ returned = FALSE
    /\ parseRet = 0

\* unquote has not been called.
NoUnquote ==
    /\ ustr = <<>>
    /\ upos = 0
    /\ res = <<>>
    /\ quote = NUL
    /\ escaping = FALSE
    /\ ustate = "none"

Init ==
    /\ NoParse
    /\ NoUnquote
    /\ Boot

\* read_mounts_from_fd alone, called on a descriptor at the start of one
\* of the tables, with every way the reads can split it.
ParseInit ==
    /\ Boot
    /\ NoUnquote
    /\ mdirs \in MountLists
    /\ mfile = MountTable(mdirs)
    /\ mpos = 0
    /\ mstate = "BeforeDirectory"
    /\ out = <<>>
    /\ reads = 0
    /\ returned = FALSE
    /\ parseRet = 0

ParseNext == read_mounts_from_fd

ParseSpec == ParseInit /\ [][ParseNext]_vars

\* unquote alone, called on one of the strings or on the documented one.
UnquoteInit ==
    /\ Boot
    /\ NoParse
    /\ ustr \in UnquoteStrings \cup {DocumentedInput}
    /\ upos = 0
    /\ res = <<>>
    /\ quote = NUL
    /\ escaping = FALSE
    /\ ustate = "loop"

UnquoteNext == unquote_char \/ unquote_return

UnquoteSpec == UnquoteInit /\ [][UnquoteNext]_vars

\* The supervisor of src/init when main is entered.
VariantInit ==
    /\ pc = "init::mount_early"
    /\ Reset
    /\ NoParse
    /\ NoUnquote

VariantNext ==
    \/ init_mount_early
    \/ init_thread_spawn
    \/ init_start_ui
    \/ init_ui_exit
    \/ init_wait
    \/ init_caught
    \/ init_sync
    \/ init_kill_all_processes
    \/ init_reap
    \/ init_unmount_all
    \/ init_umount
    \/ init_reboot
    \/ background_set_kernel_opts
    \/ background_setup_networking
    \/ background_mount

VariantSpec == VariantInit /\ [][VariantNext]_vars

Next ==
    \/ Start
    \/ mount_early
    \/ create_dev_symlinks
    \/ block_sigchld
    \/ signalfd4
    \/ SeatServer_new
    \/ start_ui_process
    \/ run_event_loop_return
    \/ ui_process_pre_exec
    \/ execve
    \/ spawn_helper_exit
    \/ panic_in_child
    \/ spawn_with_pre_exec
    \/ late_init
    \/ ack_error
    \/ poll
    \/ read_signalfd
    \/ wait4
    \/ recvfrom
    \/ open
    \/ sendmsg
    \/ graceful_shutdown
    \/ write_kernel_log
    \/ dmesg_spawn_helper
    \/ spawn_and_wait
    \/ write_kernel_log_match
    \/ sync
    \/ end_all_processes
    \/ wait
    \/ unmount_all
    \/ umount
    \/ power_off
    \/ exit
    \/ panic
    \/ ChildExit
    \/ ClientSend
    \/ ClientRecv

Spec == Init /\ [][Next]_vars

\* ------------------------------------------------------------- properties
\* Positions of _start up to the end of the event loop.
BootPcs ==
    {"_start", "mount_early", "create_dev_symlinks", "run_event_loop", "signalfd4",
     "SeatServer_new", "start_ui_process"}
LoopPcs == {"poll", "read_signalfd", "wait4", "recvfrom", "open", "sendmsg"}
LateInitPcs == {"late_init", "ack_error"}

\* The fatal conditions on which run_event_loop leaves its loop.
FatalExits ==
    {"poll_failed", "signalfd_error", "socket_error", "seat_request_failed"}

\* Nothing runs any more: powered off, exited, or spinning in the panic handler.
Ended == pc \in {"off", "exited", "halted"}

\* The pid a step of the loop's wait4 reaps (empty if it reaps none).
ReapedByLoop == IF pc = "wait4" THEN zombies \ zombies' ELSE {}

\* C1 as stated: the event loop is left only by having reaped the UI
\* process id.
C1_LoopEndsOnlyOnUiDeath == loopExit # "none" => loopExit = "ui_died"

\* C1, amended: reaping a child other than the UI process never ends the
\* loop (the next step is another wait4), reaping the UI process always ends
\* it (or panics on the log line), and the loop is left only that way or on a
\* fatal error of poll, of one of the two descriptors, or of the receive.
C1_LoopEndsOnUiDeathOrFatalError ==
    /\ [][ReapedByLoop # {} =>
            IF ReapedByLoop = {uiPid}
            THEN /\ pc' \in {"run_event_loop_return", "panic"}
                 /\ loopExit' = IF pc' = "panic" THEN "none" ELSE "ui_died"
            ELSE pc' = "wait4" /\ loopExit' = "none"]_vars
    /\ [][loopExit' # loopExit =>
            /\ loopExit = "none"
            /\ pc' = "run_event_loop_return"
            /\ \/ loopExit' = "ui_died" /\ ReapedByLoop = {uiPid}
               \/ loopExit' \in FatalExits /\ pc \in {"poll", "recvfrom"}]_vars

\* Witness of C1: the loop has reaped udevd, not the UI process, and is back
\* at its poll.
C1_Witness ==
    /\ pc = "poll"
    /\ uiPid = SwayPid
    /\ UdevdPid \notin children \cup zombies
    /\ loopExit = "none"

\* C2: a panic raised between the start of boot and the end of the event
\* loop still leads to the shutdown sequence (broadcast, unmount pass,
\* power-off); the supervisor is never left spinning without it.
C2_PanicReachesShutdown ==
    (pc = "halted" /\ panicFrom \in BootPcs \cup LateInitPcs \cup LoopPcs)
        => (shutdownRuns >= 1 /\ broadcast >= 1 /\ umountPass = "done" /\ powerOffs >= 1)

\* C3: every execution that has come to its end has run the shutdown
\* sequence exactly once and issued exactly one power-off request.
C3_ShutdownExactlyOnce == Ended => (shutdownRuns = 1 /\ powerOffs = 1)

MountPoints(ls) == [i \in 1..Len(ls) |-> ls[i][2]]

\* C5: once unmount_all has gone through the list it read, the umount
\* targets it issued are the mount points of that list in reverse order.
C5_ReverseMountOrder ==
    (umountPass = "done" /\ lines # <<>> /\ cursor = 0)
        => umountCalls = Reverse(MountPoints(lines))

\* C6: when the power-off request is issued, nothing but the root is left
\* in the active mount list.
C6_AllUnmounted == powerOffs >= 1 => Dirs(mounts) \subseteq {"/"}

\* C7: the supervisor never comes to a standstill (spinning in the panic
\* handler after a panic of late init or of the loop, or inside a sendmsg
\* that nobody is left to unblock) while the UI process has exited and has
\* not been reaped.
C7_UiExitNeverMissed ==
    (uiPid > 0 /\ uiPid \in zombies)
        => ~ \/ pc = "halted" /\ panicFrom \in LateInitPcs \cup LoopPcs
             \/ SendBlocked /\ uiPid \notin children

\* C8 as stated: when the broker turns to the next datagram, one response
\* datagram has been sent for every well-formed request received so far.
C8_OneResponseSent == pc = "recvfrom" => sentOk = recvd

\* C8, amended: when the broker turns to the next datagram, exactly one
\* sendmsg has been called for every well-formed request received so far
\* (at most one response each has been sent: a failed sendmsg sends none),
\* while a request is being served its sendmsg is still to come, and the
\* message for a request whose open failed carries no descriptor.
C8_OneSendPerRequest ==
    /\ pc = "recvfrom" => (sendCalls = recvd /\ sentOk <= recvd)
    /\ pc \in {"open", "sendmsg"} => sendCalls + 1 = recvd
    /\ (pc = "recvfrom" /\ recvd >= 1 /\ devFd < 0) => resp.fds = <<>>

\* Witness of C8: two well-formed requests served, the second denied, one of
\* the two sendmsg calls having failed.
C8_Witness ==
    /\ pc = "recvfrom"
    /\ recvd = 2
    /\ sendCalls = 2
    /\ sentOk = 1
    /\ devFd < 0
    /\ resp.fds = <<>>

\* C9: sendmsg always returns without waiting.
C9_SendNeverBlocks == ~SendBlocked

\* C10: a denied response (no descriptor attached) has an empty payload, a
\* granted one a non-empty payload and exactly one descriptor.
C10_DeniedIsEmpty ==
    \A i \in 1..Len(outQ) :
        IF outQ[i].fds = <<>>
        THEN outQ[i].len = 0
        ELSE outQ[i].len > 0 /\ Len(outQ[i].fds) = 1

\* A step of process_incoming_one that takes the datagram at the head of the
\* server's queue.
TakesDatagram == pc = "recvfrom" /\ inQ # <<>> /\ inQ' = Tail(inQ)

\* A datagram that is a NUL-terminated string of at most BufLen bytes.
Terminated(d) == Len(d) \in 1..BufLen /\ d[Len(d)] = NUL

\* C11: every well-formed request is passed to open, whatever its path is;
\* the open decides alone: the message of the sendmsg that follows carries
\* the opened descriptor if the open succeeded and none if it failed, and
\* that message is what the compositor's queue receives.
C11_HandleIffOpenSucceeded ==
    /\ [][(TakesDatagram /\ Terminated(Head(inQ))) => pc' = "open"]_vars
    /\ [][(pc = "open" /\ pc' # pc) => (pc' = "sendmsg" /\ devFd' \in OpenResults)]_vars
    /\ [][sendCalls' > sendCalls =>
            /\ pc = "sendmsg"
            /\ resp'.fds = (IF devFd >= 0 THEN <<devFd>> ELSE <<>>)
            /\ outQ' # outQ => outQ' = Append(outQ, resp')]_vars

\* Witness of C11: a granted and then a denied request, both responses
\* sent, the second still in the compositor's queue.
C11_Witness ==
    /\ pc = "recvfrom"
    /\ recvd = 2
    /\ sentOk = 2
    /\ devFd < 0
    /\ outQ = <<Response(-2)>>

\* C12: a failed open or a failed sendmsg is logged, and it never stops the
\* broker or the event loop: when the broker turns to the next datagram after
\* a request whose open failed a log line has been written, and the
\* supervisor is never brought down from the sendmsg of a request.
C12_FailureIsolated ==
    /\ (pc = "recvfrom" /\ recvd >= 1 /\ devFd < 0) => logged
    /\ ~(pc \in {"panic", "halted"} /\ panicFrom = "sendmsg")

\* The fatal conditions found right after poll returns.
PollErrors == {"poll_failed", "signalfd_error", "socket_error"}

\* C14: once poll has failed or has reported an error condition on one of
\* the two descriptors, the loop is over (nothing is reaped or served any
\* more) and the supervisor does not come to rest before the shutdown
\* sequence has run.
C14_FatalErrorReachesShutdown ==
    /\ loopExit \in PollErrors => pc \notin LoopPcs
    /\ (Ended /\ (loopExit \in PollErrors \/ panicFrom = "poll")) => shutdownRuns >= 1

\* C15: a poll that finds the signalfd readable is followed by the drain
\* and then by the reap loop; the reap loop hands over to the seat check or
\* to the next poll only when no exited child is left (it ends earlier only
\* by reaping the UI process or by a panic); so a zombie present while the
\* loop waits has exited after the reap loop ended, and its SIGCHLD is
\* pending: the next poll returns at once.
C15_ReapsEveryExitedChild ==
    /\ [][(pc = "poll" /\ sigPending /\ pc' \in LoopPcs \ {"poll"}) =>
            (pc' = "read_signalfd" /\ revents'[1])]_vars
    /\ [][(pc = "read_signalfd" /\ pc' # pc) => pc' \in {"wait4", "panic"}]_vars
    /\ [][(pc = "wait4" /\ pc' \in {"poll", "recvfrom"}) => zombies' = {}]_vars
    /\ []((pc = "poll" /\ sigBlocked /\ zombies # {}) => sigPending)

\* Witness of C15: udevd has exited and was reaped, the signalfd is drained,
\* no zombie is left and the loop waits again with the UI process running.
C15_Witness ==
    /\ pc = "poll"
    /\ sigBlocked
    /\ ~sigPending
    /\ zombies = {}
    /\ children = {SwayPid}

\* C16: whichever of the broadcast, the reaping, the reading of the mount
\* list and the unmounts fail, the shutdown sequence goes on to the power-off
\* request: the supervisor never comes to rest after the broadcast without
\* having issued it.
C16_PowerOffAlwaysIssued == (Ended /\ broadcast >= 1) => powerOffs >= 1

\* A step of the reap loop in which libc::wait returns.
WaitReturns == pc = "wait" /\ children' = children

BroadcastToNobody == pc = "end_all_processes" /\ pc' # pc /\ children \cup zombies = {}

\* C18 as stated: with no process to signal the broadcast reports no error
\* and the reap loop is then entered.
C18_ReapLoopRunsAfterEsrch ==
    [][BroadcastToNobody => (pc' = "wait" /\ reapState' = "running")]_vars

\* C18, amended: with no process to signal the broadcast reports no error
\* (no log line, so no panic) and end_all_processes returns at once, without
\* entering the reap loop: the next step of the sequence is the one after it.
C18_EsrchReturnsSilently ==
    [][BroadcastToNobody =>
        /\ pc' = Return("end_all_processes")
        /\ reapState' = "skipped"
        /\ waitRet' = waitRet]_vars

\* Witness of C18: the session is over, no process was left to signal, and
\* the sequence is at its unmount pass without having waited.
C18_Witness ==
    /\ pc = "unmount_all"
    /\ uiPid > 0
    /\ children \cup zombies = {}
    /\ reapState = "skipped"
    /\ waitRet = 0

\* C19: the sync of the shutdown sequence is issued once the unmount pass
\* has finished, and the power-off request after the sync.
C19_SyncAfterUnmounts ==
    /\ syncs >= 1 => umountPass = "done"
    /\ powerOffs >= 1 => syncs >= 1

\* C20: the caller of spawn_with_pre_exec stays suspended only while the
\* child is in spawn_helper, and the child always leaves it, by exec or by
\* exit: the child never comes to rest inside it with the parent suspended.
C20_SpawnAlwaysReturns ==
    /\ uiPid > 0 => childPc = "done"
    /\ ~(pc = "spawn_with_pre_exec" /\ childPc = "halted")

\* A datagram of zero length, or without a NUL in the bytes that fit the
\* buffer.
NoTerminator(d) == Len(d) = 0 \/ \A i \in 1..Min(Len(d), BufLen) : d[i] # NUL

\* C13: a malformed datagram is taken off the queue and nothing else
\* happens: no open, no sendmsg, no log line (so no panic), no error (the loop
\* is not left), and the broker turns to the next datagram.
C13_MalformedSkipped ==
    [][(TakesDatagram /\ NoTerminator(Head(inQ))) =>
        /\ pc' = "recvfrom"
        /\ UNCHANGED <<recvd, devFd, sendCalls, sentOk, resp, outQ, loopExit, panicFrom>>]_vars

\* Witness of C13: a malformed datagram was skipped, and the request queued
\* behind it is being served.
C13_Witness ==
    /\ pc = "open"
    /\ clientSent = 2
    /\ recvd = 1
    /\ inQ = <<>>

\* The calls of the child so far that are named `name`.
CallsOf(name) == { i \in 1..Len(childTrace) : childTrace[i].call = name }

\* The hook has returned false: one of its calls has failed and the child
\* is past the hook (it did not panic on the log line).
HookReturnedFalse ==
    /\ childPc \in {"execve", "exit", "done"}
    /\ \E i \in 1..Len(childTrace) :
        childTrace[i].call \notin {"execve", "exit"} /\ childTrace[i].ret < 0

\* C21: once the hook has returned false the child never calls execve and
\* its next call is exit with a non-zero status; and the child calls execve
\* only with the hook behind it, none of whose calls has failed.
C21_NoExecAfterHookFailure ==
    /\ HookReturnedFalse =>
        /\ CallsOf("execve") = {}
        /\ childPc # "execve"
        /\ childPc = "done" =>
            /\ childTrace[Len(childTrace)].call = "exit"
            /\ childTrace[Len(childTrace)].ret # 0
            /\ SwayPid \notin children
    /\ (childPc = "execve" \/ CallsOf("execve") # {}) =>
        \A i \in 1..Len(childTrace) :
            childTrace[i].call \notin {"execve", "exit"} => childTrace[i].ret = 0

\* Witness of C21: setgroups failed in the hook, the child has exited and
\* the parent has been resumed.
C21_Witness ==
    /\ pc = "late_init"
    /\ childTrace = << Call("setgid", 0), Call("setgroups", -EINVAL), Call("exit", 1) >>
    /\ SwayPid \in zombies

\* C23: the child calls setgid, setgroups, setuid and chdir in that order,
\* stops at the first that fails, and calls execve only when all four have
\* returned success.
C23_PrivilegesDroppedBeforeExec ==
    LET order == <<"setgid", "setgroups", "setuid", "chdir">> IN
    /\ \A i \in 1..Len(childTrace) :
        /\ childTrace[i].call \notin {"execve", "exit"} =>
            (i <= Len(order) /\ childTrace[i].call = order[i])
        /\ (i < Len(childTrace) /\ childTrace[i].ret < 0) =>
            childTrace[i + 1].call \in {"exit"}
    /\ \A e \in CallsOf("execve") :
        /\ e = Len(order) + 1
        /\ \A i \in 1..Len(order) : childTrace[i] = Call(order[i], 0)

\* Witness of C23: the four calls succeeded and sway was executed; the
\* supervisor knows its pid.
C23_Witness ==
    /\ uiPid = SwayPid
    /\ SwayPid \in children
    /\ Len(childTrace) = 5
    /\ childTrace[5] = Call("execve", 0)

\* The mount points of a table, in configuration order.
TableDirs(table) == [i \in 1..Len(table) |-> table[i].dir]

\* The boot steps whose failure is only logged.
BestEffortSteps == {"mount_early", "create_dev_symlinks", "late_init", "ack_error"}

\* C25: when start_ui_process returned a negative value, control is in the
\* shutdown sequence: the late initialisation is never run, the loop is
\* never entered, and graceful_shutdown is what runs next.
C25_FailedUiStartGoesToShutdown ==
    uiPid < 0 =>
        /\ pc \notin LateInitPcs \cup LoopPcs
        /\ \A i \in 1..Len(mounts_late) : mounts_late[i].dir \notin Dirs(mounts)
        /\ pc \in {"run_event_loop_return", "graceful_shutdown"} \/ shutdownRuns > 0

\* C26: no failure of a best-effort boot step prevents a later step: once
\* mount_early has returned every early mount has been attempted, whichever
\* of them failed, and none of these steps ends in the panic handler.
C26_BootStepsBestEffort ==
    /\ panicFrom \notin BestEffortSteps
    /\ (pc \notin {"_start", "mount_early"} /\ panicFrom # "_start")
          => \A i \in 1..Len(mounts_early) :
                \E j \in 1..Len(mountTried) : mountTried[j] = mounts_early[i].dir

\* C27: every mount record is used once, in its phase and in configuration
\* order: when the UI process has been spawned every early mount has been
\* attempted, a late mount is attempted only once the UI pid is known, and
\* between the spawn and late_init the early targets are mounted and the
\* late ones are not.
C27_MountPhases ==
    /\ childPc # "none" =>
          SubSeq(mountTried, 1, Min(Len(mountTried), Len(mounts_early)))
              = TableDirs(mounts_early)
    /\ \A j \in 1..Len(mountTried) :
          (\E i \in 1..Len(mounts_late) : mountTried[j] = mounts_late[i].dir)
              => uiPid > 0
    /\ \A i, j \in 1..Len(mountTried) : mountTried[i] = mountTried[j] => i = j
    /\ pc \in {"spawn_with_pre_exec", "late_init"} =>
          /\ \A i \in 1..Len(mounts_early) : mounts_early[i].dir \in Dirs(mounts)
          /\ \A i \in 1..Len(mounts_late) : mounts_late[i].dir \notin Dirs(mounts)

\* C22: spawn_and_wait_with_pre_exec waits for the child it spawned and for
\* no other: when it returns Ok the child has exited, it is the one child
\* reaped, and an exec (or hook) failure shows as a non-zero status, not as
\* an error; when it returns Err (the clone or the wait failed) no child has
\* been reaped, and after a failed clone no wait has been made at all.
C22_SpawnAndWaitsForThatChild ==
    [][/\ (pc = "spawn_and_wait" /\ pc' # pc) =>
            LET reaped == zombies \ zombies' IN
            /\ waitCalls' = <<DmesgPid>>
            /\ IF spawnRet'.ok
               THEN /\ DmesgPid \in zombies
                    /\ reaped = {DmesgPid}
                    /\ dmesgPc = "exited" => spawnRet'.val # 0
               ELSE reaped = {} /\ spawnRet'.val < 0
       /\ (pc = "write_kernel_log" /\ pc' = "write_kernel_log_match") =>
            /\ ~spawnRet'.ok
            /\ spawnRet'.val < 0
            /\ waitCalls' = <<>>
            /\ zombies' = zombies /\ children' = children]_vars

\* Witness of C22: the exec of dmesg failed and spawn_and_wait returned
\* Ok with a non-zero status, while udevd had exited and was left unreaped.
C22_Witness ==
    /\ pc = "write_kernel_log_match"
    /\ dmesgPc = "exited"
    /\ spawnRet = Ok(WaitStatus(ExitCode))
    /\ waitCalls = <<DmesgPid>>
    /\ UdevdPid \in zombies
    /\ DmesgPid \notin children \cup zombies

\* C24: the two endpoints exist before the UI process is spawned, and when
\* the UI image is executed the compositor's endpoint has been rewired by
\* the hook (a dup2 before the execve) and is inherited, while the server's
\* endpoint is not.
C24_ClientEndpointInherited ==
    /\ childPc # "none" =>
          /\ handles["seat_server"].state # "none"
          /\ handles["seat_compositor"].state # "none"
    /\ \A i \in 1..Len(childTrace) :
          childTrace[i] = Call("execve", 0) =>
              /\ "seat_compositor" \in inherited
              /\ "seat_server" \notin inherited
              /\ \E j \in 1..(i - 1) :
                    childTrace[j].call = "dup2" /\ childTrace[j].ret >= 0

\* The Fd values whose scope is over: the locals of run_event_loop once it
\* has returned, dev_fd outside the sendmsg of its request, the log
\* descriptor outside write_kernel_log.
OutOfScope ==
    (IF pc = "graceful_shutdown" \/ shutdownRuns > 0
     THEN {"signalfd", "seat_server", "seat_compositor"} ELSE {})
    \cup (IF pc \notin {"sendmsg", "panic", "halted"} THEN {"dev_fd"} ELSE {})
    \cup (IF pc \notin {"spawn_and_wait", "write_kernel_log_match", "panic", "halted"}
          THEN {"dmesg_fd"} ELSE {})

\* C28: no descriptor owned by an Fd value is closed twice, none is open
\* once its scope is over, and none is left open for ever on a fault path
\* (the supervisor at rest in the panic handler).
C28_HandlesClosedOnce ==
    /\ \A n \in HandleNames : handles[n].closes <= 1
    /\ \A n \in OutOfScope : handles[n].state # "open"
    /\ pc = "halted" => \A n \in HandleNames : handles[n].state # "open"

\* C29: a close that fails, whatever becomes of its report, never stops the
\* supervisor.
C29_CloseFailureNotFatal == panicFrom # "Fd_drop"

\* The mount points of a table, each followed by one NUL, in file order.
RECURSIVE Expected(_)
Expected(dirs) ==
    IF dirs = <<>> THEN <<>> ELSE Head(dirs) \o <<NUL>> \o Expected(Tail(dirs))

\* C30: when read_mounts_from_fd returns a count, the output buffer holds
\* the mount point of every line of the table, each followed by one NUL, in
\* file order, and the count is the number of bytes written, however the
\* reads have split the table.
C30_MountPointsWhateverTheChunks ==
    (returned /\ parseRet >= 0) =>
        /\ out = Expected(mdirs)
        /\ parseRet = Len(out)

\* C34: in the unmount pass one umount is attempted for every line of the
\* list that was read, and a failed umount never ends the pass: the
\* supervisor is never brought down from it.
C34_EveryLineUnmounted ==
    /\ pc = "umount" => Len(umountCalls) + cursor = Len(lines)
    /\ (umountPass = "done" /\ lines # <<>>) => Len(umountCalls) = Len(lines)
    /\ ~(pc \in {"panic", "halted"} /\ panicFrom = "umount")

\* C36: a recvfrom that fails with anything but EAGAIN sends no response
\* and takes no datagram, the loop is over from then on, and the supervisor
\* does not come to rest before the shutdown sequence has run.
C36_ReceiveErrorEndsLoop ==
    /\ [][(pc = "recvfrom" /\ pc' \in {"run_event_loop_return", "panic"})
            => UNCHANGED <<inQ, outQ, recvd, sendCalls, sentOk>>]_vars
    /\ [](loopExit = "seat_request_failed" => pc \notin LoopPcs)
    /\ []((Ended /\ (loopExit = "seat_request_failed" \/ panicFrom = "recvfrom"))
            => shutdownRuns >= 1)

\* C37: the reap loop is entered only after a broadcast that succeeded;
\* after one that failed end_all_processes returns without a wait and the
\* unmount pass is next.
C37_FailedBroadcastSkipsReaping ==
    /\ [][(pc = "end_all_processes" /\ pc' # pc) =>
            IF killRet' >= 0
            THEN pc' = "wait"
            ELSE /\ pc' = "unmount_all"
                 /\ reapState' = "skipped"
                 /\ waitRet' = waitRet]_vars
    /\ [](pc = "wait" => killRet = 0)

\* The descriptors the supervisor owns.
OpenHandles == {n \in HandleNames : handles[n].state = "open"}

\* C35: the supervisor never accumulates device descriptors. Whenever
\* process_incoming_one has returned (the broker is about to receive again,
\* or the loop is back at poll, the signalfd or the reaping), and until the
\* next open, no Fd value for a device is open, whether the open failed, the
\* send succeeded or the send failed; the descriptors the supervisor owns
\* are then the three the event loop started with.
C35_NoDeviceDescriptorKept ==
    pc \in LoopPcs \ {"sendmsg"} =>
        /\ handles["dev_fd"].state # "open"
        /\ OpenHandles = {"signalfd", "seat_server", "seat_compositor"}

\* Two requests have been served, one whose response was sent and one whose
\* send failed, and the device descriptor of the last one has been closed.
C35_Witness ==
    /\ pc = "recvfrom"
    /\ recvd = 2 /\ sendCalls = 2 /\ sentOk = 1
    /\ handles["dev_fd"].state = "closed"

\* The points of the event loop outside process_incoming.
OutsideBroker == {"poll", "read_signalfd", "wait4"}

\* C33 (as stated): each wake-up of the broker drains the socket to
\* completion. process_incoming returns success only after a receive found
\* no datagram pending, a datagram leaves the socket only as the oldest one
\* and only when the previous one has been dealt with, and once the loop is
\* back outside the broker every request received has had its response
\* sent.
C33_DrainedAndAnswered ==
    /\ [][(pc = "recvfrom" /\ pc' = "poll") => inQ = <<>>]_vars
    /\ [][(pc \in LoopPcs /\ Len(inQ') < Len(inQ)) => TakesDatagram]_vars
    /\ [](pc \in OutsideBroker => sentOk = recvd)

\* C33 (amended): as above, but what has happened for every request
\* received, once the loop is back outside the broker, is the one attempt
\* to send its response; nothing waits for a later iteration.
C33_DrainedOneAtATime ==
    /\ [][(pc = "recvfrom" /\ pc' = "poll") => inQ = <<>>]_vars
    /\ [][(pc \in LoopPcs /\ Len(inQ') < Len(inQ)) => TakesDatagram]_vars
    /\ [](pc \in OutsideBroker => (sendCalls = recvd /\ sentOk <= recvd))

\* The loop is back at its wait after one wake-up in which two requests
\* were received and both were dealt with, the send of one having failed.
C33_Witness ==
    /\ pc = "poll"
    /\ inQ = <<>>
    /\ clientSent = 2 /\ recvd = 2 /\ sendCalls = 2 /\ sentOk = 1

\* C38: read_mounts_from_fd never writes outside the output buffer of
\* OutLen bytes. The write cursor is always less than OutLen; a table whose
\* mount points, each with its NUL, do not fit below OutLen makes it return
\* a negative value, -ENOMEM unless a read failed first; the error of a
\* failed read is returned as it is, nothing more being written; and a
\* count returned is at most OutLen - 1.
C38_WritesStayInBuffer ==
    /\ [](Len(out) < OutLen)
    /\ []((returned /\ Len(Expected(mdirs)) >= OutLen) => parseRet \in {-ENOMEM, -EINTR})
    /\ [][(returned' /\ ~returned /\ parseRet' < 0 /\ mpos' = mpos)
            => (parseRet' = -EINTR /\ out' = out)]_vars
    /\ []((returned /\ parseRet >= 0) => parseRet <= OutLen - 1)

\* A table that does not fit has been refused with -ENOMEM after its first
\* mount point was written.
C38_Witness ==
    /\ returned
    /\ parseRet = -ENOMEM
    /\ Len(Expected(mdirs)) >= OutLen
    /\ out # <<>>

\* What a shell makes of a word: outside quotes a backslash makes the next
\* character literal and a quote character opens a quotation; between
\* single quotes every character is literal; between double quotes a
\* backslash is removed only in front of a double quote or a backslash.
\* `complete` is FALSE when the word ends inside a quotation or right after
\* an escaping backslash.
RECURSIVE Shell(_, _, _)
Shell(s, mode, word) ==
    IF s = <<>> THEN [complete |-> mode = "plain", word |-> word]
    ELSE LET c == Head(s) IN
         IF mode = "single"
         THEN IF c = SQ THEN Shell(Tail(s), "plain", word)
              ELSE Shell(Tail(s), mode, Append(word, c))
         ELSE IF c = BS
         THEN IF Len(s) = 1 THEN [complete |-> FALSE, word |-> word]
              ELSE IF mode = "double" /\ s[2] \notin {DQ, BS}
              THEN Shell(Tail(Tail(s)), mode, word \o <<BS, s[2]>>)
              ELSE Shell(Tail(Tail(s)), mode, Append(word, s[2]))
         ELSE IF mode = "plain" /\ c \in {SQ, DQ}
         THEN Shell(Tail(s), IF c = SQ THEN "single" ELSE "double", word)
         ELSE IF mode = "double" /\ c = DQ
         THEN Shell(Tail(s), "plain", word)
         ELSE Shell(Tail(s), mode, Append(word, c))

\* C39: unquote parses a quoted string as a shell would. Once it is over,
\* an assertion has failed exactly when the shell finds the string ending
\* inside a quotation or right after a backslash; otherwise the result is
\* the shell's word; and the documented input gives the documented output.
C39_UnquoteAsShell ==
    ustate \notin {"none", "loop"} =>
        LET sh == Shell(ustr, "plain", <<>>) IN
        /\ (ustate = "returned") = sh.complete
        /\ ustate = "returned" => res = sh.word
        /\ ustr = DocumentedInput => (ustate = "returned" /\ res = DocumentedOutput)

\* C31: late initialisation does not delay the interactive session. While
\* the supervisor is in late_init, and in particular while it waits in
\* ack_error for the kernel's answer, no device request of the UI process
\* is queued unserved and no exited child is left unreaped: nothing waits
\* for late initialisation to finish.
C31_SessionNotDelayedByLateInit ==
    pc \in LateInitPcs => (inQ = <<>> /\ zombies = {})

\* C32: in the variant with the detached thread, every mount made by
\* background_init is unmounted before the power-off request: once reboot
\* has been called /boot is not mounted, and once unmount_all has read the
\* mount list the thread of background_init is not still on its way to its
\* mount call.
C32_BackgroundMountUnmounted ==
    /\ powerOffs >= 1 => "/boot" \notin Dirs(mounts)
    /\ lines # <<>> => bgPc \notin BackgroundPending

====
